---------------------------- MODULE Spec2Model ----------------------------
(***************************************************************************)
(* Model of bot/bot.go: the Bot struct, Init / loadSlackData, the dispatch *)
(* loop HandleMessages, the gate shouldHandleMessage, trimMessage and the  *)
(* pipeline HandleMessage.                                                 *)
(*                                                                         *)
(* Strings are sequences of one-character strings, so that the Go string   *)
(* functions (strings.Contains, strings.Replace, strings.TrimSpace and     *)
(* indexing) are computed and not assumed.  "LQ" and "RQ" stand for the    *)
(* typographic quotes U+2018 and U+2019, "'" for the plain apostrophe.     *)
(***************************************************************************)
EXTENDS Integers, Sequences, FiniteSets, TLC

VARIABLES
    cfg,          \* b.config: Slack.Token, Slack.Team, AllowedUsers, ...
    auth,         \* b.auth: [set, UserID], set is FALSE while the pointer is nil
    allowedUsers, \* b.allowedUsers: user ID -> user name
    clientChannels, \* client.Channels: [set, map], map is channel ID -> name
    clientUsers,  \* client.Users: [set, map], set once loadSlackData assigned it
    backend,      \* what the Slack backend holds: channels, users, groups
    initSt,       \* position of Init: pc, loop index, fetched list, result
    calls,        \* the backend calls Init has made, in order
    transport,    \* ManageConnection goroutine: "off" | "running" | "disconnected"
    loop,         \* HandleMessages: [st, cur, injected], cur the inline pipeline
    internalQ,    \* client.InternalMessages
    tasks,        \* the goroutines spawned by `go b.HandleMessage(*message)`
    trimSt,       \* argument and results of trimMessage calls
    gateSt        \* argument and result of a shouldHandleMessage call

vars == << cfg, auth, allowedUsers, clientChannels, clientUsers, backend,
           initSt, calls, transport, loop, internalQ, tasks, trimSt, gateSt >>

----------------------------------------------------------------------------
(* Bounds *)

\* longest raw text, in fragments, given to trimMessage
MaxFrags == 3
\* pipelines (spawned for transport events or injected) in one behaviour
MaxPipelines == 2
\* users the backend may hold
MaxUsers == 2

----------------------------------------------------------------------------
(* Strings *)

\* s[from..] starts with sub
HasPrefixAt(s, sub, from) ==
    /\ from + Len(sub) - 1 <= Len(s)
    /\ \A k \in 1..Len(sub) : s[from + k - 1] = sub[k]

\* strings.Index: position of the first occurrence of sub in s, 0 if none
Index(s, sub) ==
    LET hits == { i \in 1..(Len(s) + 1) : HasPrefixAt(s, sub, i) }
    IN  IF hits = {} THEN 0 ELSE CHOOSE i \in hits : \A j \in hits : i <= j

\* strings.Contains
Contains(s, sub) == Index(s, sub) # 0

\* strings.Replace(s, old, "", -1): every occurrence of old is deleted
RECURSIVE ReplaceEvery(_, _)
ReplaceEvery(s, old) ==
    LET i == Index(s, old)
    IN  IF i = 0 \/ old = << >> THEN s
        ELSE SubSeq(s, 1, i - 1)
               \o ReplaceEvery(SubSeq(s, i + Len(old), Len(s)), old)

\* strings.Replace(s, old, "", 1): the first occurrence of old is deleted
ReplaceFirst(s, old) ==
    LET i == Index(s, old)
    IN  IF i = 0 THEN s
        ELSE SubSeq(s, 1, i - 1) \o SubSeq(s, i + Len(old), Len(s))

\* strings.Replace(s, old, new, -1) for one-character old and new
ReplaceChar(s, old, new) ==
    [ i \in 1..Len(s) |-> IF s[i] = old THEN new ELSE s[i] ]

IsSpace(c) == c = " "

\* strings.TrimSpace
TrimSpace(s) ==
    LET keep == { i \in 1..Len(s) : ~IsSpace(s[i]) }
    IN  IF keep = {} THEN << >>
        ELSE LET lo == CHOOSE i \in keep : \A j \in keep : i <= j
                 hi == CHOOSE i \in keep : \A j \in keep : j <= i
             IN  SubSeq(s, lo, hi)

\* strings.Count: the non-overlapping occurrences of sub in s
RECURSIVE Count(_, _)
Count(s, sub) ==
    LET i == Index(s, sub)
    IN  IF i = 0 \/ sub = << >> THEN 0
        ELSE 1 + Count(SubSeq(s, i + Len(sub), Len(s)), sub)

\* "<@" + id + ">"
MentionToken(id) == << "<", "@" >> \o id \o << ">" >>

\* trimMessage with strings.Replace(..., -1) on the mention token
trimMessageEvery(id, msg) ==
    LET m1 == ReplaceEvery(msg, MentionToken(id))
        m2 == ReplaceChar(m1, "LQ", "'")
        m3 == ReplaceChar(m2, "RQ", "'")
    IN  TrimSpace(m3)

\* trimMessage, for a bot whose auth.UserID is id
trimMessage(id, msg) ==
    LET m1 == ReplaceFirst(msg, MentionToken(id))
        m2 == ReplaceChar(m1, "LQ", "'")
        m3 == ReplaceChar(m2, "RQ", "'")
    IN  TrimSpace(m3)

----------------------------------------------------------------------------
(* Identities, events and the inputs the environment may supply *)

\* const TypeInternal = "internal"
TypeInternal == "internal"

\* the user ID AuthTest reports for the bot
BotUserID == << "B" >>

UserU == << "U" >>
UserV == << "V" >>
UserW == << "W" >>

ChanDM  == << "D", "1" >>
ChanPub == << "C", "1" >>
ChanOps == << "C", "2" >>

\* raw texts: the mention alone, the mention and a command, a command alone
TextMention    == MentionToken(BotUserID)
TextMentionCmd == MentionToken(BotUserID) \o << " ", "a" >>
TextCmd        == << "a" >>

\* a slack.MessageEvent: the fields bot.go reads
Event(user, botID, subType, channel, text) ==
    [ User |-> user, BotID |-> botID, SubType |-> subType,
      Channel |-> channel, Text |-> text ]

\* every combination of field values the gate distinguishes
GateEvents ==
    { Event(u, b, st, c, t) :
        u \in { << >>, BotUserID, UserU, UserV },
        b \in { "", "B7" },
        st \in { "", "bot_message", TypeInternal },
        c \in { << >>, ChanDM, ChanPub },
        t \in { TextMentionCmd, TextCmd } }

\* the events the transport delivers on IncomingEvents while pipelines run:
\* direct messages and mentions of the approved user U and the unapproved
\* user V, a message that is only the mention, a message whose subtype is
\* "internal", bot traffic, an unaddressed message, and a message without
\* a channel ID
TransportEvents ==
    { Event(UserU, "", "", ChanDM, TextCmd),
      Event(UserV, "", "", ChanDM, TextCmd),
      Event(UserV, "", TypeInternal, ChanDM, TextCmd),
      Event(UserU, "", "", ChanPub, TextMentionCmd),
      Event(UserV, "", "", ChanPub, TextMentionCmd),
      Event(UserV, "", "", ChanDM, TextMention),
      Event(BotUserID, "", "", ChanDM, TextCmd),
      Event(UserU, "B7", "", ChanDM, TextCmd),
      Event(UserU, "", "bot_message", ChanPub, TextMentionCmd),
      Event(<< >>, "", "", ChanDM, TextCmd),
      Event(UserU, "", "", ChanPub, TextCmd),
      Event(UserU, "", "", << >>, TextCmd) }

\* the messages commands may push on client.InternalMessages: they carry the
\* context of the event that triggered them
InternalEvents ==
    { Event(u, "", "", ChanDM, t) :
        u \in { << >>, UserU, UserV }, t \in { TextMention, TextCmd } }

----------------------------------------------------------------------------
(* The gate *)

\* shouldHandleMessage whose bot-traffic rule omits event.BotID != ""
shouldHandleMessageNoBotID(id, event) ==
    IF \/ event.User = << >>
       \/ event.User = id
       \/ event.SubType = "bot_message"
    THEN "reject"
    ELSE IF Contains(event.Text, MentionToken(id)) THEN "accept"
    ELSE IF event.Channel = << >> THEN "panic"
    ELSE IF event.Channel[1] = "D" THEN "accept"
    ELSE "reject"

\* shouldHandleMessage: "accept" (true), "reject" (false), or "panic" when
\* event.Channel[0] indexes an empty string (index out of range)
shouldHandleMessage(id, event) ==
    IF \/ event.BotID # ""
       \/ event.User = << >>
       \/ event.User = id
       \/ event.SubType = "bot_message"
    THEN "reject"
    ELSE IF Contains(event.Text, MentionToken(id)) THEN "accept"
    ELSE IF event.Channel = << >> THEN "panic"
    ELSE IF event.Channel[1] = "D" THEN "accept"
    ELSE "reject"

----------------------------------------------------------------------------
(* Configuration and backend *)

Range(f) == { f[x] : x \in DOMAIN f }

Token == << "x", "o", "x", "b" >>
TeamMarker == << "o", "p" >>
TestEndpoint == << "h", "t", "t", "p" >>

NameOf(id) ==
    IF id = UserU THEN << "u" >>
    ELSE IF id = UserV THEN << "v" >>
    ELSE << "w" >>

\* users of the workspace: the title holds the team marker or only its letters
UserRecs ==
    { [ ID |-> id, Name |-> NameOf(id), Title |-> t ] :
        id \in { UserU, UserV, UserW },
        t \in { << "x", "o", "p" >>, << "o", "x", "p" >> } }

\* user lists the backend may return: IDs are unique
UserLists ==
    { l \in UNION { [ 1..k -> UserRecs ] : k \in 0..MaxUsers } :
        \A i, j \in DOMAIN l : i # j => l[i].ID # l[j].ID }

ChannelList ==
    << [ ID |-> ChanPub, Name |-> "general" ], [ ID |-> ChanOps, Name |-> "ops" ] >>

GroupMembers == [ g \in { "g", "h" } |-> IF g = "g" THEN << UserW >> ELSE << UserV, UserU >> ]

Config(token, team, allowed, groups, join, test) ==
    [ Token |-> token, Team |-> team, AllowedUsers |-> allowed,
      AllowedGroups |-> groups, AutoJoinChannels |-> join,
      TestEndpointUrl |-> test ]

Backend(users) ==
    [ channels |-> ChannelList, users |-> users, groups |-> GroupMembers ]

\* the configurations and backends Init is explored with
InitConfigs ==
    { Config(tk, tm, al, gr, jn, << >>) :
        tk \in { << >>, Token },
        tm \in { << >>, TeamMarker },
        al \in { << >>, << << "u" >> >>, << UserV >> },
        gr \in { << >>, << "g" >>, << "g", "h" >> },
        jn \in { << >>, << ChanPub >>, << ChanPub, ChanOps >> } }

\* the configurations the dispatcher is explored with: user U is approved by
\* name, user V is not approved; the test endpoint is configured or not
RunConfigs ==
    { Config(Token, << >>, << << "u" >> >>, << "g" >>, << ChanPub >>, te) :
        te \in { << >>, TestEndpoint } }

RunBackend ==
    Backend(<< [ ID |-> UserU, Name |-> NameOf(UserU), Title |-> << "x", "o", "p" >> ],
               [ ID |-> UserV, Name |-> NameOf(UserV), Title |-> << "x", "o", "p" >> ] >>)

----------------------------------------------------------------------------
(* Init and loadSlackData *)

Call(op, arg, ok) == [ op |-> op, arg |-> arg, ok |-> ok ]

InitAt(pc, i) == [ initSt EXCEPT !.pc = pc, !.i = i ]

InitFail == [ initSt EXCEPT !.pc = "failed" ]

\* where Init continues once the channel map is filled, the groups are
\* resolved, the users are scanned
EnterGroups == IF Len(cfg.AllowedGroups) >= 1 THEN "groups" ELSE "users"

EnterFill(list) == IF Len(list) >= 1 THEN "fill" ELSE EnterGroups

EnterScan(list) == IF Len(list) >= 1 THEN "scan" ELSE "publish"

EnterJoin == IF Len(cfg.AutoJoinChannels) > 0 THEN "join" ELSE "finish"

\* a JoinChannel error is dropped and the loop goes on
AfterJoinIgnoringError(ok, i, n) == IF i < n THEN "join" ELSE "finish"

\* the auto-join loop after JoinChannel returned: `if err != nil { return err }`
AfterJoin(ok, i, n) ==
    IF ~ok THEN "failed" ELSE IF i < n THEN "join" ELSE "finish"

\* only the user name is matched against the allow-list
isAllowedByNameOnly(c, user) ==
    \/ c.Team # << >> /\ Contains(user.Title, c.Team)
    \/ \E k \in DOMAIN c.AllowedUsers : c.AllowedUsers[k] = user.Name

\* the test of the user loop of loadSlackData
isAllowed(c, user) ==
    \/ c.Team # << >> /\ Contains(user.Title, c.Team)
    \/ \E k \in DOMAIN c.AllowedUsers :
          c.AllowedUsers[k] = user.Name \/ c.AllowedUsers[k] = user.ID

UNCHANGED_Dispatch == UNCHANGED << loop, internalQ, tasks, trimSt, gateSt >>

\* if b.config.Slack.Token == "" { return error }
Init_CheckToken ==
    /\ initSt.pc = "start"
    /\ initSt' = IF cfg.Token = << >> THEN InitFail ELSE InitAt("auth", 1)
    /\ UNCHANGED << cfg, auth, allowedUsers, clientChannels, clientUsers,
                    backend, calls, transport >>
    /\ UNCHANGED_Dispatch

\* the error of AuthTest is not tested: Init goes on without an identity
Init_AuthTestErrorIgnored ==
    /\ initSt.pc = "auth"
    /\ \E ok \in BOOLEAN :
         /\ calls' = Append(calls, Call("AuthTest", << >>, ok))
         /\ auth' = IF ok THEN [ set |-> TRUE, UserID |-> BotUserID ] ELSE auth
         /\ initSt' = InitAt("manage", 1)
    /\ UNCHANGED << cfg, allowedUsers, clientChannels, clientUsers, backend,
                    transport >>
    /\ UNCHANGED_Dispatch

\* b.auth, err = b.slackClient.AuthTest()
Init_AuthTest ==
    /\ initSt.pc = "auth"
    /\ \E ok \in BOOLEAN :
         /\ calls' = Append(calls, Call("AuthTest", << >>, ok))
         /\ auth' = IF ok THEN [ set |-> TRUE, UserID |-> BotUserID ] ELSE auth
         /\ initSt' = IF ok THEN InitAt("manage", 1) ELSE InitFail
    /\ UNCHANGED << cfg, allowedUsers, clientChannels, clientUsers, backend,
                    transport >>
    /\ UNCHANGED_Dispatch

\* go b.slackClient.ManageConnection()
Init_ManageConnection ==
    /\ initSt.pc = "manage"
    /\ calls' = Append(calls, Call("ManageConnection", << >>, TRUE))
    /\ transport' = "running"
    /\ initSt' = InitAt("channels", 1)
    /\ UNCHANGED << cfg, auth, allowedUsers, clientChannels, clientUsers, backend >>
    /\ UNCHANGED_Dispatch

\* channels, err := GetChannels(true); client.Channels = make(...)
Init_GetChannels ==
    /\ initSt.pc = "channels"
    /\ \E ok \in BOOLEAN :
         /\ calls' = Append(calls, Call("GetChannels", << >>, ok))
         /\ clientChannels' = IF ok THEN [ set |-> TRUE, map |-> << >> ]
                                   ELSE clientChannels
         /\ initSt' = IF ok
                      THEN [ initSt EXCEPT !.pc = EnterFill(backend.channels),
                                           !.i = 1, !.list = backend.channels ]
                      ELSE InitFail
    /\ UNCHANGED << cfg, auth, allowedUsers, clientUsers, backend, transport >>
    /\ UNCHANGED_Dispatch

\* client.Channels[channel.ID] = channel.Name, one channel of the range loop
Init_FillChannel ==
    /\ initSt.pc = "fill"
    /\ LET ch == initSt.list[initSt.i]
       IN  clientChannels' =
             [ clientChannels EXCEPT !.map =
                 [ id \in DOMAIN @ \cup { ch.ID } |->
                     IF id = ch.ID THEN ch.Name ELSE @[id] ] ]
    /\ initSt' = IF initSt.i < Len(initSt.list)
                 THEN InitAt("fill", initSt.i + 1)
                 ELSE InitAt(EnterGroups, 1)
    /\ UNCHANGED << cfg, auth, allowedUsers, clientUsers, backend, calls,
                    transport >>
    /\ UNCHANGED_Dispatch

\* one group of loadSlackData: GetUserGroupMembers, append to AllowedUsers
Load_Group ==
    /\ initSt.pc = "groups"
    /\ LET groupName == cfg.AllowedGroups[initSt.i]
       IN  \E ok \in BOOLEAN :
             /\ calls' = Append(calls, Call("GetUserGroupMembers", groupName, ok))
             /\ cfg' = IF ok
                       THEN [ cfg EXCEPT !.AllowedUsers =
                                @ \o backend.groups[groupName] ]
                       ELSE cfg
             /\ initSt' = IF ~ok THEN InitFail
                          ELSE IF initSt.i < Len(cfg.AllowedGroups)
                               THEN InitAt("groups", initSt.i + 1)
                               ELSE InitAt("users", 1)
    /\ UNCHANGED << auth, allowedUsers, clientChannels, clientUsers, backend,
                    transport >>
    /\ UNCHANGED_Dispatch

\* the error path of GetUsers calls b.Disconnect() before it returns
Load_GetUsersDisconnectOnError ==
    /\ initSt.pc = "users"
    /\ \E ok \in BOOLEAN :
         /\ calls' = IF ok THEN Append(calls, Call("GetUsers", << >>, ok))
                     ELSE calls \o << Call("GetUsers", << >>, ok),
                                      Call("Disconnect", << >>, TRUE) >>
         /\ transport' = IF ok THEN transport ELSE "disconnected"
         /\ initSt' = IF ok
                      THEN [ initSt EXCEPT !.pc = EnterScan(backend.users),
                                           !.i = 1, !.list = backend.users ]
                      ELSE InitFail
    /\ UNCHANGED << cfg, auth, allowedUsers, clientChannels, clientUsers,
                    backend >>
    /\ UNCHANGED_Dispatch

\* allUsers, err := b.slackClient.GetUsers()
Load_GetUsers ==
    /\ initSt.pc = "users"
    /\ \E ok \in BOOLEAN :
         /\ calls' = Append(calls, Call("GetUsers", << >>, ok))
         /\ initSt' = IF ok
                      THEN [ initSt EXCEPT !.pc = EnterScan(backend.users),
                                           !.i = 1, !.list = backend.users ]
                      ELSE InitFail
    /\ UNCHANGED << cfg, auth, allowedUsers, clientChannels, clientUsers,
                    backend, transport >>
    /\ UNCHANGED_Dispatch

\* one user of the range loop of loadSlackData
Load_ScanUser ==
    /\ initSt.pc = "scan"
    /\ LET user == initSt.list[initSt.i]
       IN  allowedUsers' =
             IF isAllowed(cfg, user)
             THEN [ id \in DOMAIN allowedUsers \cup { user.ID } |->
                      IF id = user.ID THEN user.Name ELSE allowedUsers[id] ]
             ELSE allowedUsers
    /\ initSt' = IF initSt.i < Len(initSt.list)
                 THEN InitAt("scan", initSt.i + 1)
                 ELSE InitAt("publish", 1)
    /\ UNCHANGED << cfg, auth, clientChannels, clientUsers, backend, calls,
                    transport >>
    /\ UNCHANGED_Dispatch

\* client.Users = b.allowedUsers; return nil
Load_Publish ==
    /\ initSt.pc = "publish"
    /\ clientUsers' = [ set |-> TRUE, map |-> allowedUsers ]
    /\ initSt' = InitAt(EnterJoin, 1)
    /\ UNCHANGED << cfg, auth, allowedUsers, clientChannels, backend, calls,
                    transport >>
    /\ UNCHANGED_Dispatch

\* one channel of the auto-join loop
Init_JoinChannel ==
    /\ initSt.pc = "join"
    /\ LET channel == cfg.AutoJoinChannels[initSt.i]
       IN  \E ok \in BOOLEAN :
             /\ calls' = Append(calls, Call("JoinChannel", channel, ok))
             /\ LET to == AfterJoin(ok, initSt.i, Len(cfg.AutoJoinChannels))
                IN  initSt' = IF to = "failed" THEN InitFail
                              ELSE IF to = "join" THEN InitAt("join", initSt.i + 1)
                              ELSE InitAt("finish", 1)
    /\ UNCHANGED << cfg, auth, allowedUsers, clientChannels, clientUsers,
                    backend, transport >>
    /\ UNCHANGED_Dispatch

\* the final log lines; return nil
Init_Return ==
    /\ initSt.pc = "finish"
    /\ initSt' = InitAt("done", 1)
    /\ UNCHANGED << cfg, auth, allowedUsers, clientChannels, clientUsers,
                    backend, calls, transport >>
    /\ UNCHANGED_Dispatch

InitStep ==
    \/ Init_CheckToken
    \/ Init_AuthTest
    \/ Init_ManageConnection
    \/ Init_GetChannels
    \/ Init_FillChannel
    \/ Load_Group
    \/ Load_GetUsers
    \/ Load_ScanUser
    \/ Load_Publish
    \/ Init_JoinChannel
    \/ Init_Return

NoEvent == Event(<< >>, "", "", << >>, << >>)

\* a HandleMessage invocation: its copy of the event, where the event came
\* from, its position, and what it has sent, run and logged so far: typing
\* messages, "not allowed" error lines, "not whitelisted" replies, calls of
\* Commands.Run and what the call returned ("yes", "no"), fallback replies,
\* "handled message" lines
NewPipeline(ev, src) ==
    [ ev |-> ev, src |-> src, pc |-> "start", typing |-> 0, denied |-> 0,
      nwl |-> 0, runs |-> 0, matched |-> "", fallback |-> 0, logged |-> 0 ]

\* no HandleMessage runs in the loop
NoPipeline == [ NewPipeline(NoEvent, "") EXCEPT !.pc = "none" ]

\* the state NewBot leaves: nothing authenticated, an empty allowedUsers map
Constructed(c, b) ==
    /\ cfg = c
    /\ backend = b
    /\ auth = [ set |-> FALSE, UserID |-> << >> ]
    /\ allowedUsers = << >>
    /\ clientChannels = [ set |-> FALSE, map |-> << >> ]
    /\ clientUsers = [ set |-> FALSE, map |-> << >> ]
    /\ initSt = [ pc |-> "start", i |-> 1, list |-> << >>,
                  explicit |-> c.AllowedUsers ]
    /\ calls = << >>
    /\ transport = "off"
    /\ loop = [ st |-> "Idle", cur |-> NoPipeline, injected |-> 0,
               kill |-> FALSE ]
    /\ internalQ = << >>
    /\ tasks = << >>

NoTrim == [ pc |-> "off", in |-> << >>, once |-> << >>, twice |-> << >> ]

NoGate == [ pc |-> "off", ev |-> NoEvent, res |-> "" ]

InitInit ==
    /\ \E c \in InitConfigs, u \in UserLists : Constructed(c, Backend(u))
    /\ trimSt = NoTrim
    /\ gateSt = NoGate

SpecInit == InitInit /\ [][InitStep]_vars

\* the dispatcher and the pure-function checks start from one configuration
InitRun ==
    /\ \E c \in RunConfigs : Constructed(c, RunBackend)
    /\ trimSt = NoTrim
    /\ gateSt = NoGate

UNCHANGED_Bot ==
    UNCHANGED << cfg, auth, allowedUsers, clientChannels, clientUsers, backend,
                 initSt, calls >>

----------------------------------------------------------------------------
(* trimMessage applied to raw texts *)

Frags ==
    { MentionToken(BotUserID), << "<", "@" >>, << "B", ">" >>, << " " >>,
      << "a" >>, << "LQ" >>, << "RQ" >> }

RECURSIVE Flatten(_)
Flatten(ss) == IF ss = << >> THEN << >> ELSE Head(ss) \o Flatten(Tail(ss))

RawTexts == { Flatten(f) : f \in UNION { [ 1..k -> Frags ] : k \in 0..MaxFrags } }

\* b.trimMessage(t) for a raw text t
TrimCall ==
    /\ initSt.pc = "done"
    /\ trimSt.pc = "off"
    /\ \E t \in RawTexts :
         trimSt' = [ pc |-> "once", in |-> t,
                     once |-> trimMessage(auth.UserID, t), twice |-> << >> ]
    /\ UNCHANGED_Bot
    /\ UNCHANGED << transport, loop, internalQ, tasks, gateSt >>

\* b.trimMessage applied to its own result
TrimAgain ==
    /\ trimSt.pc = "once"
    /\ trimSt' = [ trimSt EXCEPT !.pc = "twice",
                                 !.twice = trimMessage(auth.UserID, trimSt.once) ]
    /\ UNCHANGED_Bot
    /\ UNCHANGED << transport, loop, internalQ, tasks, gateSt >>

NextTrim == InitStep \/ TrimCall \/ TrimAgain

SpecTrim == InitRun /\ [][NextTrim]_vars

----------------------------------------------------------------------------
(* HandleMessage: the pipeline *)

\* the typing message is sent before the text is tested for emptiness
HM_NormalizeTypingFirst(p) ==
    LET text == trimMessage(auth.UserID, p.ev.Text)
    IN  IF text = << >>
        THEN [ p EXCEPT !.ev.Text = text, !.typing = @ + 1, !.pc = "done" ]
        ELSE [ p EXCEPT !.ev.Text = text, !.typing = @ + 1, !.pc = "auth" ]

\* lines 182-191: normalize, return on empty text, send the typing message
HM_Normalize(p) ==
    LET text == trimMessage(auth.UserID, p.ev.Text)
    IN  IF text = << >>
        THEN [ p EXCEPT !.ev.Text = text, !.pc = "done" ]
        ELSE [ p EXCEPT !.ev.Text = text, !.typing = @ + 1, !.pc = "auth" ]

\* the test without its TestEndpointUrl conjunct
notAllowedIgnoringBypass(event) ==
    /\ event.User \notin DOMAIN allowedUsers
    /\ event.SubType # TypeInternal

\* !existing && event.SubType != TypeInternal && TestEndpointUrl == ""
notAllowed(event) ==
    /\ event.User \notin DOMAIN allowedUsers
    /\ event.SubType # TypeInternal
    /\ cfg.TestEndpointUrl = << >>

\* the "not whitelisted" reply without the return that follows it
HM_AuthorizeNoReturn(p) ==
    IF notAllowed(p.ev)
    THEN [ p EXCEPT !.denied = @ + 1, !.nwl = @ + 1, !.pc = "run" ]
    ELSE [ p EXCEPT !.pc = "run" ]

\* lines 193-198: log the error, reply "not whitelisted" and return, or go
\* on to the command
HM_Authorize(p) ==
    IF notAllowed(p.ev)
    THEN [ p EXCEPT !.denied = @ + 1, !.nwl = @ + 1, !.pc = "done" ]
    ELSE [ p EXCEPT !.pc = "run" ]

\* the fallback reply is sent whatever Commands.Run returned
HM_RunAlwaysFallback(p, matched) ==
    [ p EXCEPT !.runs = @ + 1,
               !.matched = IF matched THEN "yes" ELSE "no",
               !.fallback = @ + 1,
               !.logged = @ + 1,
               !.pc = "done" ]

\* lines 200-205: Commands.Run returned matched; fallback reply; outcome log
HM_Run(p, matched) ==
    [ p EXCEPT !.runs = @ + 1,
               !.matched = IF matched THEN "yes" ELSE "no",
               !.fallback = IF matched THEN @ ELSE @ + 1,
               !.logged = @ + 1,
               !.pc = "done" ]

\* the next positions of a HandleMessage invocation
PipelineSteps(p) ==
    IF p.pc = "start" THEN { HM_Normalize(p) }
    ELSE IF p.pc = "auth" THEN { HM_Authorize(p) }
    ELSE IF p.pc = "run" THEN { HM_Run(p, m) : m \in BOOLEAN }
    ELSE { }

InProgress(p) == p.pc \in { "start", "auth", "run" }

----------------------------------------------------------------------------
(* HandleMessages: the dispatch loop *)

\* the loop waits in its select: no HandleMessage runs inline
AtSelect == loop.st = "Running" /\ ~InProgress(loop.cur)

\* the process lives: the loop has not panicked
Alive == loop.st \in { "Running", "Stopped" }

\* pipelines started or queued so far
Pipelines == Len(tasks) + loop.injected

\* the message is left as injected
MarkInternalDropped(msg) == msg

\* msg.SubType = TypeInternal
MarkInternal(msg) == [ msg EXCEPT !.SubType = TypeInternal ]

\* b.HandleMessage(*message) without `go`: the pipeline runs in the loop
SpawnInline(ev) ==
    /\ loop' = [ loop EXCEPT !.cur = NewPipeline(ev, "transport") ]
    /\ UNCHANGED tasks

\* go b.HandleMessage(*message)
Spawn(ev) ==
    /\ tasks' = Append(tasks, NewPipeline(ev, "transport"))
    /\ UNCHANGED loop

\* the caller starts HandleMessages once Init returned nil
StartHandleMessages ==
    /\ initSt.pc = "done"
    /\ loop.st = "Idle"
    /\ loop' = [ loop EXCEPT !.st = "Running" ]
    /\ UNCHANGED_Bot
    /\ UNCHANGED << transport, internalQ, tasks, trimSt, gateSt >>

\* case msg := <-b.slackClient.IncomingEvents, a *slack.MessageEvent (a
\* LatencyReport is only logged, as is a rejected message)
RecvExternal(ev) ==
    /\ AtSelect
    /\ LET r == shouldHandleMessage(auth.UserID, ev)
       IN  IF r = "accept"
           THEN Pipelines < MaxPipelines /\ Spawn(ev)
           ELSE IF r = "panic"
           THEN loop' = [ loop EXCEPT !.st = "Crashed" ] /\ UNCHANGED tasks
           ELSE UNCHANGED << loop, tasks >>
    /\ UNCHANGED_Bot
    /\ UNCHANGED << transport, internalQ, trimSt, gateSt >>

\* a command or a timer pushes a message on client.InternalMessages
InjectInternal(ev) ==
    /\ Alive
    /\ Pipelines < MaxPipelines
    /\ internalQ' = Append(internalQ, ev)
    /\ loop' = [ loop EXCEPT !.injected = @ + 1 ]
    /\ UNCHANGED_Bot
    /\ UNCHANGED << transport, tasks, trimSt, gateSt >>

\* go b.HandleMessage(msg): the internal event gets a goroutine of its own
RecvInternalSpawned ==
    /\ AtSelect
    /\ internalQ # << >>
    /\ tasks' = Append(tasks, NewPipeline(MarkInternal(Head(internalQ)),
                                          "internal"))
    /\ internalQ' = Tail(internalQ)
    /\ UNCHANGED_Bot
    /\ UNCHANGED << transport, loop, trimSt, gateSt >>

\* case msg := <-client.InternalMessages, up to the call b.HandleMessage(msg)
RecvInternal ==
    /\ AtSelect
    /\ internalQ # << >>
    /\ loop' = [ loop EXCEPT !.cur = NewPipeline(MarkInternal(Head(internalQ)),
                                                 "internal") ]
    /\ internalQ' = Tail(internalQ)
    /\ UNCHANGED_Bot
    /\ UNCHANGED << transport, tasks, trimSt, gateSt >>

\* b.HandleMessage(msg) running in the loop
InlineStep ==
    /\ loop.st = "Running"
    /\ \E q \in PipelineSteps(loop.cur) : loop' = [ loop EXCEPT !.cur = q ]
    /\ UNCHANGED_Bot
    /\ UNCHANGED << transport, internalQ, tasks, trimSt, gateSt >>

\* a spawned goroutine running b.HandleMessage
TaskStep(k) ==
    /\ Alive
    /\ \E q \in PipelineSteps(tasks[k]) : tasks' = [ tasks EXCEPT ![k] = q ]
    /\ UNCHANGED_Bot
    /\ UNCHANGED << transport, loop, internalQ, trimSt, gateSt >>

\* a signal arrives on the kill channel
RaiseKill ==
    /\ loop.st = "Running"
    /\ ~loop.kill
    /\ loop' = [ loop EXCEPT !.kill = TRUE ]
    /\ UNCHANGED_Bot
    /\ UNCHANGED << transport, internalQ, tasks, trimSt, gateSt >>

\* the loop returns on the signal without b.Disconnect()
KillWithoutDisconnect ==
    /\ AtSelect
    /\ loop.kill
    /\ loop' = [ loop EXCEPT !.st = "Stopped" ]
    /\ UNCHANGED_Bot
    /\ UNCHANGED << transport, internalQ, tasks, trimSt, gateSt >>

\* case <-kill: b.Disconnect(); return
Kill ==
    /\ AtSelect
    /\ loop.kill
    /\ loop' = [ loop EXCEPT !.st = "Stopped" ]
    /\ transport' = "disconnected"
    /\ calls' = Append(calls, Call("Disconnect", << >>, TRUE))
    /\ UNCHANGED << cfg, auth, allowedUsers, clientChannels, clientUsers,
                    backend, initSt >>
    /\ UNCHANGED << internalQ, tasks, trimSt, gateSt >>

Init == InitRun

Next ==
    \/ InitStep
    \/ StartHandleMessages
    \/ \E ev \in TransportEvents : RecvExternal(ev)
    \/ \E ev \in InternalEvents : InjectInternal(ev)
    \/ RecvInternal
    \/ InlineStep
    \/ \E k \in DOMAIN tasks : TaskStep(k)
    \/ RaiseKill
    \/ Kill

Spec == Init /\ [][Next]_vars

\* the loop goes on when it can: an inline HandleMessage returns (Commands.Run
\* may take long, but finishes), and a select that finds the kill channel
\* ready again and again takes it at last (select picks among the ready cases
\* at random)
Fairness == WF_vars(InlineStep) /\ SF_vars(Kill)

SpecLive == Init /\ [][Next]_vars /\ Fairness

----------------------------------------------------------------------------
(* shouldHandleMessage applied to events, beside the loop receiving them *)

\* b.shouldHandleMessage(&ev) for an event ev
GateCall ==
    /\ loop.st = "Running"
    /\ gateSt.pc = "off"
    /\ tasks = << >>
    /\ \E ev \in GateEvents :
         gateSt' = [ pc |-> "done", ev |-> ev,
                     res |-> shouldHandleMessage(auth.UserID, ev) ]
    /\ UNCHANGED_Bot
    /\ UNCHANGED << transport, loop, internalQ, tasks, trimSt >>

NextGate ==
    \/ InitStep
    \/ StartHandleMessages
    \/ gateSt.pc = "off" /\ \E ev \in GateEvents : RecvExternal(ev)
    \/ GateCall

SpecGate == InitRun /\ [][NextGate]_vars

----------------------------------------------------------------------------
(* Properties *)

\* every HandleMessage invocation: the goroutines and the one in the loop
AllPipelines ==
    Range(tasks) \cup (IF loop.cur.pc = "none" THEN { } ELSE { loop.cur })

\* the text the pipeline works on once line 182 has run
NormText(p) ==
    IF p.pc = "start" THEN trimMessage(auth.UserID, p.ev.Text) ELSE p.ev.Text

Approved(user) == user \in DOMAIN allowedUsers

NoBypass == cfg.TestEndpointUrl = << >>

\* the sender is not approved, the event is not internal, no bypass is set
Unauthorized(p) ==
    /\ ~Approved(p.ev.User)
    /\ p.ev.SubType # TypeInternal
    /\ NoBypass

\* C1 as stated: every pipeline of an unapproved sender (event not internal,
\* no bypass endpoint) sends exactly one "not whitelisted" reply and runs no
\* command and sends no fallback.
C1_Original ==
    \A p \in AllPipelines :
        Unauthorized(p) =>
            /\ p.runs = 0 /\ p.fallback = 0 /\ p.nwl <= 1
            /\ p.pc = "done" => p.nwl = 1

\* C1 amended: every pipeline of an unapproved sender (event not internal,
\* no bypass endpoint) whose normalized text is not empty sends exactly one
\* "not whitelisted" reply, runs no command and sends no fallback; when the
\* normalized text is empty it sends no reply at all.
C1_UnauthorizedRejected ==
    \A p \in AllPipelines :
        Unauthorized(p) =>
            /\ p.runs = 0 /\ p.fallback = 0 /\ p.nwl <= 1
            /\ p.pc = "done" => (p.nwl = 1 <=> NormText(p) # << >>)

C1_Witness ==
    \E p \in AllPipelines :
        /\ Unauthorized(p) /\ p.src = "transport"
        /\ p.pc = "done" /\ p.nwl = 1 /\ p.runs = 0

\* C2: no command is ever executed for an event received from the transport
\* whose sender is not approved (no bypass endpoint), whatever its fields
\* carry; only events from the internal queue skip the allow-list check.
C2_SourceDecidesBypass ==
    \A p \in AllPipelines :
        (p.src = "transport" /\ ~Approved(p.ev.User) /\ NoBypass) =>
            p.runs = 0 /\ p.pc # "run"

\* C3: an event taken from the internal queue never gets the "not
\* whitelisted" reply and, when its normalized text is not empty, reaches
\* Commands.Run, for every sender and with or without the bypass endpoint.
C3_InternalBypassesAuthorization ==
    \A p \in AllPipelines :
        p.src = "internal" =>
            /\ p.nwl = 0
            /\ (p.pc = "done" /\ NormText(p) # << >>) => p.runs = 1
            /\ (p.pc = "run") => NormText(p) # << >>

C3_Witness ==
    /\ loop.cur.src = "internal" /\ loop.cur.pc = "done"
    /\ ~Approved(loop.cur.ev.User) /\ NoBypass
    /\ loop.cur.runs = 1 /\ loop.cur.nwl = 0

\* the bot-traffic rule of the gate
BotTraffic(ev) ==
    \/ ev.BotID # ""
    \/ ev.User = << >>
    \/ ev.User = auth.UserID
    \/ ev.SubType = "bot_message"

IsDirectMessage(ev) == ev.Channel # << >> /\ Head(ev.Channel) = "D"

HasMention(ev) == Contains(ev.Text, MentionToken(auth.UserID))

\* C4: the gate rejects every event that is bot traffic (originating-bot
\* marker set, no sender, sender is the bot, subtype "bot_message"), also
\* with a mention or in a direct-message channel, and no pipeline is ever
\* spawned for such an event.
C4_BotTrafficRejected ==
    /\ (gateSt.pc = "done" /\ BotTraffic(gateSt.ev)) => gateSt.res = "reject"
    /\ \A k \in DOMAIN tasks : ~BotTraffic(tasks[k].ev)

C4_Witness ==
    /\ gateSt.pc = "done" /\ gateSt.res = "reject"
    /\ gateSt.ev.BotID # "" /\ gateSt.ev.User = UserU
    /\ HasMention(gateSt.ev) /\ IsDirectMessage(gateSt.ev)

\* C5: for an event that is not bot traffic the gate returns accept if and
\* only if the channel is a direct-message channel or the text holds the
\* mention token, and returns reject otherwise (empty channel ID included).
C5_GateDecision ==
    (gateSt.pc = "done" /\ ~BotTraffic(gateSt.ev)) =>
        /\ gateSt.res \in { "accept", "reject" }
        /\ gateSt.res = "accept" <=>
              (IsDirectMessage(gateSt.ev) \/ HasMention(gateSt.ev))

\* C6: a failure while deciding on or handling one message stays with that
\* message: the dispatch loop is never brought down by it, and the process
\* with its other pipelines lives on.
C6_FailuresIsolated ==
    /\ loop.st # "Crashed"
    /\ loop.st # "Idle" => Alive

\* C7: pipelines of transport events never block the loop: they run as
\* goroutines, never in the loop; whatever pipelines are in progress, a
\* running loop that is not inside an inline internal pipeline can take any
\* further transport event (and spawn its pipeline while the pipeline bound
\* allows); and every spawned pipeline in progress has a next step of its
\* own while the process lives.
C7_ExternalNeverBlocks ==
    /\ loop.cur.src # "transport"
    /\ (loop.st = "Running"
          /\ ~(InProgress(loop.cur) /\ loop.cur.src = "internal")) =>
            \A ev \in TransportEvents :
                (shouldHandleMessage(auth.UserID, ev) = "accept"
                    => Pipelines < MaxPipelines)
                => ENABLED RecvExternal(ev)
    /\ \A k \in DOMAIN tasks :
          (Alive /\ InProgress(tasks[k])) => PipelineSteps(tasks[k]) # { }

\* a later pipeline is done while an earlier one is still in Commands.Run
\* and the loop is running
C7_Witness ==
    /\ loop.st = "Running"
    /\ Len(tasks) >= 2
    /\ tasks[1].pc = "run"
    /\ tasks[2].pc = "done" /\ tasks[2].runs = 1

Tok == MentionToken(auth.UserID)

\* deleting the first token of t joins its neighbours into a new token
JoinsToken(t) ==
    LET i == Index(t, Tok)
        joined == SubSeq(t, 1, i - 1) \o SubSeq(t, i + Len(Tok), Len(t))
    IN  /\ i # 0
        /\ \E j \in 1..(i - 1) : j + Len(Tok) > i /\ HasPrefixAt(joined, Tok, j)

\* C8 as stated: trimMessage(trimMessage(t)) = trimMessage(t) for every raw
\* text t, and trimMessage(t) has one token fewer than t when t holds one.
C8_Original ==
    trimSt.pc = "twice" =>
        /\ trimSt.twice = trimSt.once
        /\ Contains(trimSt.in, Tok) =>
              Count(trimSt.once, Tok) = Count(trimSt.in, Tok) - 1

\* C8 amended: trimMessage deletes only the first occurrence of the token.
\* A second pass changes nothing exactly when the first result holds no
\* token; the first result has one token fewer than t, unless the deletion
\* joins the neighbours into a new token, and then it has as many.
C8_TrimFirstOccurrenceOnly ==
    trimSt.pc = "twice" =>
        /\ trimSt.twice = trimSt.once <=> ~Contains(trimSt.once, Tok)
        /\ Contains(trimSt.in, Tok) =>
              Count(trimSt.once, Tok) =
                  Count(trimSt.in, Tok) - 1
                    + (IF JoinsToken(trimSt.in) THEN 1 ELSE 0)
        /\ ~Contains(trimSt.in, Tok) => ~Contains(trimSt.once, Tok)

C8_Witness ==
    /\ trimSt.pc = "twice"
    /\ Count(trimSt.in, Tok) >= 2
    /\ Count(trimSt.once, Tok) = Count(trimSt.in, Tok) - 1
    /\ trimSt.twice # trimSt.once

\* the calls Init makes when every step succeeds
ExpectedCalls ==
    << [ op |-> "AuthTest", arg |-> << >> ],
       [ op |-> "ManageConnection", arg |-> << >> ],
       [ op |-> "GetChannels", arg |-> << >> ] >>
    \o [ k \in 1..Len(cfg.AllowedGroups) |->
           [ op |-> "GetUserGroupMembers", arg |-> cfg.AllowedGroups[k] ] ]
    \o << [ op |-> "GetUsers", arg |-> << >> ] >>
    \o [ k \in 1..Len(cfg.AutoJoinChannels) |->
           [ op |-> "JoinChannel", arg |-> cfg.AutoJoinChannels[k] ] ]

\* C9: Init makes its calls in the fixed order (AuthTest, transport start,
\* channel fetch, one resolution per group, user fetch, one join per
\* auto-join channel), returns nil only when all of them succeeded, makes no
\* call after a failed one, makes none without a token, and undoes no join.
C9_InitFailFast ==
    LET n == Len(calls)
    IN  /\ n <= Len(ExpectedCalls)
        /\ \A k \in 1..n :
              /\ calls[k].op = ExpectedCalls[k].op
              /\ calls[k].arg = ExpectedCalls[k].arg
        /\ \A k \in 1..(n - 1) : calls[k].ok
        /\ initSt.pc = "done" =>
              n = Len(ExpectedCalls) /\ \A k \in 1..n : calls[k].ok
        /\ (n >= 1 /\ ~calls[n].ok) => initSt.pc = "failed"
        /\ cfg.Token = << >> => n = 0 /\ initSt.pc \in { "start", "failed" }
        /\ initSt.pc = "failed" =>
              cfg.Token = << >> \/ (n >= 1 /\ ~calls[n].ok)

\* Init failed at the second join, after the first join succeeded
C9_Witness ==
    LET n == Len(calls)
    IN  /\ initSt.pc = "failed"
        /\ n >= 2
        /\ calls[n].op = "JoinChannel" /\ ~calls[n].ok
        /\ calls[n - 1].op = "JoinChannel" /\ calls[n - 1].ok

\* explicit entries plus the members of every configured group
EffectiveAllowList ==
    Range(initSt.explicit)
      \cup UNION { Range(backend.groups[g]) : g \in Range(cfg.AllowedGroups) }

ExpectedApproved ==
    { u \in Range(backend.users) :
        \/ cfg.Team # << >> /\ Contains(u.Title, cfg.Team)
        \/ u.Name \in EffectiveAllowList
        \/ u.ID \in EffectiveAllowList }

\* C10: once loadSlackData has returned nil, the approved-user mapping holds
\* exactly the users whose title contains the configured team marker or
\* whose name or ID is in the effective allow-list, each mapped to its name.
C10_ApprovedExactly ==
    clientUsers.set =>
        /\ DOMAIN allowedUsers = { u.ID : u \in ExpectedApproved }
        /\ \A u \in ExpectedApproved : allowedUsers[u.ID] = u.Name
        /\ DOMAIN clientUsers.map = DOMAIN allowedUsers
        /\ \A id \in DOMAIN allowedUsers : clientUsers.map[id] = allowedUsers[id]

\* empty allow-list, no group, team marker set: one user approved by title,
\* another one not approved
C10_Witness ==
    /\ initSt.pc = "done"
    /\ initSt.explicit = << >> /\ cfg.AllowedGroups = << >>
    /\ cfg.Team # << >>
    /\ Cardinality(DOMAIN allowedUsers) = 1
    /\ Len(backend.users) = 2

\* calls of b.Disconnect() so far
DisconnectCalls == Cardinality({ k \in DOMAIN calls : calls[k].op = "Disconnect" })

\* q continues the queue p: nothing was taken from it
ExtendsQueue(p, q) == Len(q) >= Len(p) /\ SubSeq(q, 1, Len(p)) = p

\* C11: the loop goes from Running to Stopped only by taking the kill signal
\* in its select, and disconnects the transport exactly once doing so (never
\* before); the step leaves the spawned pipelines and the internal queue as
\* they are. Stopped is terminal: from then on the loop takes nothing from
\* the internal queue, spawns no pipeline, starts no inline pipeline and
\* calls nothing; the pipelines spawned before go on step by step.
C11_KillStopsOnceAndForAll ==
    [][ /\ loop'.st = "Stopped" =>
              /\ DisconnectCalls' = 1
              /\ transport' = "disconnected"
              /\ loop.st \in { "Running", "Stopped" }
        /\ loop'.st # "Stopped" => DisconnectCalls' = 0
        /\ (loop.st = "Running" /\ loop'.st = "Stopped") =>
              /\ loop.kill /\ AtSelect
              /\ tasks' = tasks /\ internalQ' = internalQ
              /\ loop'.cur = loop.cur
        /\ loop.st = "Stopped" =>
              /\ loop'.st = "Stopped" /\ loop'.cur = loop.cur
              /\ calls' = calls /\ transport' = transport
              /\ ExtendsQueue(internalQ, internalQ')
              /\ DOMAIN tasks' = DOMAIN tasks
              /\ \A k \in DOMAIN tasks :
                    \/ tasks'[k] = tasks[k]
                    \/ tasks'[k] \in PipelineSteps(tasks[k])
              /\ \A k \in DOMAIN tasks :
                    InProgress(tasks[k]) => PipelineSteps(tasks[k]) # { }
      ]_vars

\* the loop stopped while a spawned pipeline is in Commands.Run and an
\* internal event waits in the queue
C11_Witness ==
    /\ loop.st = "Stopped"
    /\ DisconnectCalls = 1
    /\ internalQ # << >>
    /\ \E k \in DOMAIN tasks : tasks[k].pc = "run"

\* the calls of AuthTest so far
AuthCalls == { k \in DOMAIN calls : calls[k].op = "AuthTest" }

\* C12: the identity exists exactly when the one AuthTest call of Init
\* succeeded; it exists in every state in which the loop has been started,
\* the gate has been evaluated or a pipeline exists; and once set it never
\* changes.
C12_IdentitySetOnceBeforeDispatch ==
    [][ /\ Cardinality(AuthCalls') <= 1
        /\ auth'.set <=> \E k \in AuthCalls' : calls'[k].ok
        /\ auth'.set => auth'.UserID = BotUserID
        /\ (loop'.st # "Idle" \/ AllPipelines' # { } \/ gateSt'.pc # "off") =>
              auth'.set
        /\ auth.set => auth' = auth
      ]_vars

\* the loop runs, one pipeline is in the loop and one is spawned
C12_Witness ==
    /\ auth.set /\ auth.UserID = BotUserID
    /\ loop.st = "Running"
    /\ InProgress(loop.cur)
    /\ \E k \in DOMAIN tasks : InProgress(tasks[k])

\* the channel-ID -> name mapping of the whole channel list
WholeChannelMap ==
    [ id \in { backend.channels[k].ID : k \in DOMAIN backend.channels } |->
        (CHOOSE c \in Range(backend.channels) : c.ID = id).Name ]

\* C13: a published channel mapping is the whole mapping and a published
\* user mapping is the whole approved-user mapping; after a failed Init
\* neither mapping is published; and once the loop has been started no step
\* changes either mapping.
C13_SnapshotPublishedWhole ==
    [][ /\ clientChannels'.set => clientChannels'.map = WholeChannelMap'
        /\ clientUsers'.set => clientUsers'.map = allowedUsers'
        /\ initSt'.pc = "failed" => ~clientChannels'.set /\ ~clientUsers'.set
        /\ loop.st # "Idle" =>
              /\ clientChannels' = clientChannels
              /\ clientUsers' = clientUsers
              /\ allowedUsers' = allowedUsers
      ]_vars

\* the third part of C13 alone: the loop and the pipelines leave the
\* mappings as Init published them
SnapshotReadOnly ==
    [][ loop.st # "Idle" =>
          /\ clientChannels' = clientChannels
          /\ clientUsers' = clientUsers
          /\ allowedUsers' = allowedUsers ]_vars

\* C14: once the kill signal is raised the loop eventually reaches Stopped,
\* whatever events arrive on the transport and the internal queue and
\* whatever the inline pipelines do meanwhile.
C14_KillEventuallyStops == loop.kill ~> (loop.st = "Stopped")

\* what holds instead: after the signal the loop stops or has panicked
KillStopsOrCrashes == loop.kill ~> (loop.st \in { "Stopped", "Crashed" })

\* the pipelines of internal events that have not finished
InternalInProgress ==
    Cardinality({ k \in DOMAIN tasks :
                    tasks[k].src = "internal" /\ InProgress(tasks[k]) })
      + (IF loop.cur.src = "internal" /\ InProgress(loop.cur) THEN 1 ELSE 0)

\* C15: at most one pipeline of an internal event is in progress at any
\* time. Every step leaves the internal queue alone, or appends one event at
\* its tail, or takes its head, and a take happens only while no internal
\* pipeline is in progress and starts the pipeline of exactly that head: so
\* internal events are handled in arrival order, one after the other.
C15_InternalInOrder ==
    [][ /\ InternalInProgress' <= 1
        /\ \/ internalQ' = internalQ
           \/ /\ Len(internalQ') = Len(internalQ) + 1
              /\ ExtendsQueue(internalQ, internalQ')
           \/ /\ internalQ # << >>
              /\ internalQ' = Tail(internalQ)
              /\ InternalInProgress = 0
              /\ loop'.cur = NewPipeline(MarkInternal(Head(internalQ)),
                                         "internal")
        /\ internalQ' = internalQ =>
              \/ loop'.cur = loop.cur
              \/ loop'.cur \in PipelineSteps(loop.cur)
      ]_vars

\* an internal pipeline is in Commands.Run while a different internal event
\* waits in the queue
C15_Witness ==
    /\ loop.cur.src = "internal" /\ loop.cur.pc = "run"
    /\ internalQ # << >>
    /\ Head(internalQ).User # loop.cur.ev.User

\* C16: every pipeline that has ended and whose normalized text is not empty
\* has written its "handled message" line (text and elapsed time) exactly
\* once, whichever branch it took.
C16_OutcomeAlwaysLogged ==
    \A p \in AllPipelines :
        (p.pc = "done" /\ p.ev.Text # << >>) => p.logged = 1

\* what holds instead: the line is written exactly when the pipeline reached
\* Commands.Run; the unauthorized branch writes its error line only
OutcomeLoggedAfterRun ==
    \A p \in AllPipelines :
        (p.pc = "done" /\ p.ev.Text # << >>) =>
            /\ p.logged = p.runs /\ p.logged + p.denied = 1
            /\ p.denied = p.nwl

\* C17: a pipeline whose normalized text is empty ends right after the
\* normalization: it sends no typing message and no reply ("not whitelisted"
\* or fallback), runs no command and writes no log line, for transport and
\* internal events and for approved and unapproved senders alike.
C17_EmptyTextDroppedSilently ==
    \A p \in AllPipelines :
        NormText(p) = << >> =>
            /\ p.pc \in { "start", "done" }
            /\ p.typing = 0 /\ p.denied = 0 /\ p.nwl = 0
            /\ p.runs = 0 /\ p.fallback = 0 /\ p.logged = 0

\* an unapproved sender's message that is only the mention, and an internal
\* event that is only the mention, both dropped
C17_Witness ==
    /\ \E k \in DOMAIN tasks :
          /\ tasks[k].pc = "done" /\ tasks[k].ev.Text = << >>
          /\ Unauthorized(tasks[k])
    /\ loop.cur.src = "internal" /\ loop.cur.pc = "done"
    /\ loop.cur.ev.Text = << >>

\* C18: a pipeline calls Commands.Run at most once, and exactly once by its
\* end when its normalized text is not empty and the whitelist test let it
\* pass, never otherwise; it sends the fallback reply at most once, exactly
\* when that call returned false; a pipeline that replied "not whitelisted"
\* runs nothing and sends no fallback.
C18_RunOnceFallbackIffNoMatch ==
    \A p \in AllPipelines :
        /\ p.runs <= 1 /\ p.fallback <= 1
        /\ p.pc = "done" =>
              (p.runs = 1 <=> (p.ev.Text # << >> /\ ~notAllowed(p.ev)))
        /\ p.pc # "done" => p.runs = 0
        /\ p.runs = 1 <=> p.matched \in { "yes", "no" }
        /\ p.fallback = 1 <=> p.matched = "no"
        /\ p.nwl >= 1 => p.runs = 0 /\ p.fallback = 0

\* one pipeline whose command matched and one that got the fallback reply
C18_Witness ==
    /\ \E k \in DOMAIN tasks :
          /\ tasks[k].pc = "done" /\ tasks[k].runs = 1
          /\ tasks[k].matched = "yes" /\ tasks[k].fallback = 0
    /\ \E k \in DOMAIN tasks :
          /\ tasks[k].pc = "done" /\ tasks[k].runs = 1
          /\ tasks[k].matched = "no" /\ tasks[k].fallback = 1

\* C19: with a test endpoint configured no pipeline, whoever the sender is,
\* logs the "not allowed" error or sends the "not whitelisted" reply, and
\* every pipeline with a non-empty normalized text ends only after it has
\* called Commands.Run.
C19_BypassDisablesWhitelist ==
    ~NoBypass =>
        \A p \in AllPipelines :
            /\ p.nwl = 0 /\ p.denied = 0
            /\ (p.pc = "done" /\ p.ev.Text # << >>) => p.runs = 1

\* with the endpoint configured, a command ran for an unapproved sender's
\* transport event
C19_Witness ==
    /\ ~NoBypass
    /\ \E k \in DOMAIN tasks :
          /\ ~Approved(tasks[k].ev.User) /\ tasks[k].ev.SubType = ""
          /\ tasks[k].pc = "done" /\ tasks[k].runs = 1

\* the positions of the ManageConnection start among the calls of Init
ManageCalls == { k \in DOMAIN calls : calls[k].op = "ManageConnection" }

\* C20: Init starts the transport activity as its second call, right after
\* the AuthTest that succeeded and before every fetch and join; it never
\* calls Disconnect; so the activity runs from then on, also after Init
\* failed at the channel fetch, a group, the user fetch or a join.
C20_InitLeavesTransportRunning ==
    /\ DisconnectCalls = 0
    /\ transport = (IF ManageCalls # { } THEN "running" ELSE "off")
    /\ ManageCalls \subseteq { 2 }
    /\ ManageCalls # { } => calls[1].op = "AuthTest" /\ calls[1].ok
    /\ (auth.set /\ initSt.pc # "manage") => ManageCalls = { 2 }
    /\ \A k \in DOMAIN calls :
          calls[k].op \in { "GetChannels", "GetUserGroupMembers", "GetUsers",
                            "JoinChannel" } => (k > 2 /\ 2 \in ManageCalls)
    /\ (initSt.pc = "failed" /\ auth.set) => transport = "running"

\* Init failed at the user fetch and the transport activity is running
C20_Witness ==
    /\ initSt.pc = "failed"
    /\ calls # << >>
    /\ calls[Len(calls)].op = "GetUsers" /\ ~calls[Len(calls)].ok
    /\ transport = "running"

=============================================================================
